---- MODULE Spec2Model ----
(***************************************************************************)
(* The board synchronisation and move-input state machine of               *)
(* src/js/index.js: the rendered grid, the orientation flag, the pending   *)
(* promotion, the promotion chooser and the deferred TurnLoop steps, run   *)
(* against the game-state engine the page imports (../pkg/index.js).       *)
(*                                                                         *)
(* Strings of the program are sequences of one-character strings, so that  *)
(* indexing, length and substring search are what the code computes.       *)
(* One action is one callback of the host's event queue, run to            *)
(* completion: reset button, drop, promotion button, timer.                *)
(***************************************************************************)
EXTENDS Integers, Sequences, FiniteSets, TLC

\* ------------------------------------------------------------- bounds

\* Half-moves the engine stand-in plays before it declares the game drawn.
MaxPlies == 2

\* Deferred TurnLoop steps that may be pending at once.
MaxTimers == 2

\* ---------------------------------------------------------- characters

LowerChars ==
    << "a", "b", "c", "d", "e", "f", "g", "h", "i", "j", "k", "l", "m",
       "n", "o", "p", "q", "r", "s", "t", "u", "v", "w", "x", "y", "z" >>

UpperChars ==
    << "A", "B", "C", "D", "E", "F", "G", "H", "I", "J", "K", "L", "M",
       "N", "O", "P", "Q", "R", "S", "T", "U", "V", "W", "X", "Y", "Z" >>

DigitChars == << "0", "1", "2", "3", "4", "5", "6", "7", "8", "9" >>

IndexIn(seq, c) == CHOOSE i \in 1..Len(seq) : seq[i] = c

Member(seq, c) == \E i \in 1..Len(seq) : seq[i] = c

OtherChars == << "-", "/", " " >>

Chars ==
    { LowerChars[i] : i \in 1..Len(LowerChars) }
        \cup { UpperChars[i] : i \in 1..Len(UpperChars) }
        \cup { DigitChars[i] : i \in 1..Len(DigitChars) }
        \cup { OtherChars[i] : i \in 1..Len(OtherChars) }

\* the character codes of the characters the program meets
CharCodes ==
    [ c \in Chars |->
        IF Member(LowerChars, c) THEN 96 + IndexIn(LowerChars, c)
        ELSE IF Member(UpperChars, c) THEN 64 + IndexIn(UpperChars, c)
        ELSE IF Member(DigitChars, c) THEN 47 + IndexIn(DigitChars, c)
        ELSE IF c = "-" THEN 45
        ELSE IF c = "/" THEN 47
        ELSE 32 ]

\* c.charCodeAt(0)
charCodeAt(c) == CharCodes[c]

isDigit(c) == charCodeAt(c) >= charCodeAt("0") /\ charCodeAt(c) <= charCodeAt("9")

isUpperChar(c) == charCodeAt(c) >= charCodeAt("A") /\ charCodeAt(c) <= charCodeAt("Z")

isLowerChar(c) == charCodeAt(c) >= charCodeAt("a") /\ charCodeAt(c) <= charCodeAt("z")

isAlpha(c) == isUpperChar(c) \/ isLowerChar(c)

toUpperCase(c) == IF isLowerChar(c) THEN UpperChars[IndexIn(LowerChars, c)] ELSE c

\* haystack.includes(needle)
includes(haystack, needle) ==
    \E i \in 0..(Len(haystack) - Len(needle)) :
        \A j \in 1..Len(needle) : haystack[i + j] = needle[j]

\* ---------------------------------------------------- CoordinateSystem

ranks == << "1", "2", "3", "4", "5", "6", "7", "8" >>

files == << "a", "b", "c", "d", "e", "f", "g", "h" >>

\* the value a throw "Invalid rank or file!" leaves in place of a label
Thrown == << "throw" >>

squareFromRankAndFile(rank, file) ==
    IF rank < 1 \/ rank > 8 \/ file < 1 \/ file > 8
    THEN Thrown
    ELSE << files[file], ranks[rank] >>

NoSquare == << "-", "-" >>

\* flipCoords turning the file and keeping the rank
flipCoords_rankKept(coords) ==
    IF Len(coords) # 2
    THEN NoSquare
    ELSE LET fileAlpha == coords[1]
             rankDigit == coords[2]
             flippedFile == 9 - (charCodeAt(fileAlpha) - charCodeAt("a") + 1)
             keptRank == charCodeAt(rankDigit) - charCodeAt("0")
         IN  squareFromRankAndFile(keptRank, flippedFile)

flipCoords(coords) ==
    IF Len(coords) # 2
    THEN NoSquare
    ELSE LET fileAlpha == coords[1]
             rankDigit == coords[2]
             flippedFile == 9 - (charCodeAt(fileAlpha) - charCodeAt("a") + 1)
             flippedRank == 9 - (charCodeAt(rankDigit) - charCodeAt("0"))
         IN  squareFromRankAndFile(flippedRank, flippedFile)

Squares == { squareFromRankAndFile(r, f) : r \in 1..8, f \in 1..8 }

\* ------------------------------------------------------- FEN strings

\* "rnbqkbnr/pppppppp/8/8/8/8/PPPPPPPP/RNBQKBNR w KQkq - 0 1"
StartingPositionFen ==
    <<  "r", "n", "b", "q", "k", "b", "n", "r", "/", "p", "p", "p", "p", "p", "p", "p",
       "p", "/", "8", "/", "8", "/", "8", "/", "8", "/", "P", "P", "P", "P", "P", "P",
       "P", "P", "/", "R", "N", "B", "Q", "K", "B", "N", "R", " ", "w", " ", "K", "Q",
       "k", "q", " ", "-", " ", "0", " ", "1" >>

\* "r2q1rk1/1b2ppb1/1p4pp/p1nnN3/P2N4/2P5/1PBB1PPP/R2QR1K1 w KQkq - 0 1"
MidGameFen ==
    <<  "r", "2", "q", "1", "r", "k", "1", "/", "1", "b", "2", "p", "p", "b", "1", "/",
       "1", "p", "4", "p", "p", "/", "p", "1", "n", "n", "N", "3", "/", "P", "2", "N",
       "4", "/", "2", "P", "5", "/", "1", "P", "B", "B", "1", "P", "P", "P", "/", "R",
       "2", "Q", "R", "1", "K", "1", " ", "w", " ", "K", "Q", "k", "q", " ", "-", " ",
       "0", " ", "1" >>

\* "8/6R1/3n4/8/1r1Q4/8/4p1P1/K1k5 w KQkq - 0 1"
TestQueenFen ==
    <<  "8", "/", "6", "R", "1", "/", "3", "n", "4", "/", "8", "/", "1", "r", "1", "Q",
       "4", "/", "8", "/", "4", "p", "1", "P", "1", "/", "K", "1", "k", "5", " ", "w",
       " ", "K", "Q", "k", "q", " ", "-", " ", "0", " ", "1" >>

\* "6k1/5ppp/8/1R6/8/2K5/8/8 w KQkq - 0 1"
TestCheckmateFen ==
    <<  "6", "k", "1", "/", "5", "p", "p", "p", "/", "8", "/", "1", "R", "6", "/", "8",
       "/", "2", "K", "5", "/", "8", "/", "8", " ", "w", " ", "K", "Q", "k", "q", " ",
       "-", " ", "0", " ", "1" >>

\* "5k2/1P6/8/8/3K4/8/8/8 w KQkq - 0 1"
TestPromotionFen ==
    <<  "5", "k", "2", "/", "1", "P", "6", "/", "8", "/", "8", "/", "3", "K", "4", "/",
       "8", "/", "8", "/", "8", " ", "w", " ", "K", "Q", "k", "q", " ", "-", " ", "0",
       " ", "1" >>

\* "8/3p4/1p6/pP6/P2K1q2/7r/6k1/8 w KQkq - 0 1"
TestDrawFen ==
    <<  "8", "/", "3", "p", "4", "/", "1", "p", "6", "/", "p", "P", "6", "/", "P", "2",
       "K", "1", "q", "2", "/", "7", "r", "/", "6", "k", "1", "/", "8", " ", "w", " ",
       "K", "Q", "k", "q", " ", "-", " ", "0", " ", "1" >>

\* fenString as resetBoard picks it from the chess-position selection
FenOfPosition(chessPosition) ==
    IF chessPosition = "Mid Game" THEN MidGameFen
    ELSE IF chessPosition = "Test Queen" THEN TestQueenFen
    ELSE IF chessPosition = "Test Checkmate" THEN TestCheckmateFen
    ELSE IF chessPosition = "Test Promotion" THEN TestPromotionFen
    ELSE IF chessPosition = "Test Draw" THEN TestDrawFen
    ELSE StartingPositionFen

\* ------------------------------------------------------------------
\* The game-state engine (lib.GameState of ../pkg/index.js).  Its code is
\* not part of the page's source; it is modelled from the interface the
\* specification gives it (section 6): a position of 64 piece codes in
\* a8..h1 order, the side to move, which sides the computer plays, and
\* the verdicts.  The stand-in moves pawns only, one step (straight onto
\* an empty square, diagonally onto an enemy piece); it declares a draw
\* after MaxPlies half-moves or when no move is left, and
\* calls it checkmate when a queen faces the king along a rank.
\* ------------------------------------------------------------------

EngineLetters == << "p", "P", "n", "N", "b", "B", "r", "R", "q", "Q", "k", "K" >>

Zeros(n) == [ k \in 1..n |-> 0 ]

RECURSIVE EngineExpandFen(_, _, _)
EngineExpandFen(fen, lo, hi) ==
    IF lo > hi THEN << >>
    ELSE IF lo = hi
    THEN IF Member(DigitChars, fen[lo])
         THEN Zeros(IndexIn(DigitChars, fen[lo]) - 1)
         ELSE IF Member(EngineLetters, fen[lo])
         THEN << IndexIn(EngineLetters, fen[lo]) >>
         ELSE << >>
    ELSE LET mid == (lo + hi) \div 2
         IN  EngineExpandFen(fen, lo, mid) \o EngineExpandFen(fen, mid + 1, hi)

\* the index of the first space: the end of the board field
EngineFieldEnd(fen) ==
    CHOOSE i \in 1..Len(fen) : fen[i] = " " /\ \A j \in 1..(i - 1) : fen[j] # " "

EnginePositionOfFen(fen) == EngineExpandFen(fen, 1, EngineFieldEnd(fen) - 1)

EngineSideField(fen) == fen[EngineFieldEnd(fen) + 1]

NoMove == << >>

GameState_new ==
    [ position    |-> EnginePositionOfFen(StartingPositionFen),
      whiteToMove |-> TRUE,
      players     |-> << 0, 0 >>,
      verdict     |-> "none",
      plies       |-> 0,
      lastMove    |-> NoMove ]

reset_board(gs) == [ GameState_new EXCEPT !.players = gs.players ]

set_players(gs, whitePlayerEnum, blackPlayerEnum) ==
    [ gs EXCEPT !.players = << whitePlayerEnum, blackPlayerEnum >> ]

set_board(gs, fenString) ==
    [ gs EXCEPT !.position = EnginePositionOfFen(fenString),
                !.whiteToMove = (EngineSideField(fenString) = "w"),
                !.verdict = "none",
                !.plies = 0,
                !.lastMove = NoMove ]

get_board(gs) == gs.position

is_white_to_move(gs) == gs.whiteToMove

is_computer_move(gs) ==
    IF gs.whiteToMove THEN gs.players[1] = 1 ELSE gs.players[2] = 1

is_checkmate(gs) == gs.verdict = "checkmate"

is_draw(gs) == gs.verdict = "draw"

EngineIndex(rank, file) == (8 - rank) * 8 + file

EngineIsWhite(code) == code # 0 /\ code % 2 = 0

EngineIsPawn(code) == code \in {1, 2}

EngineIsKing(code) == code \in {11, 12}

\* the steps a piece of the side to move may take from (r, f): a pawn
\* goes one rank forward, straight onto an empty square or diagonally
\* onto an enemy piece other than the king
EngineSteps(gs, r, f) ==
    LET p == gs.position[EngineIndex(r, f)]
        forward == IF gs.whiteToMove THEN 1 ELSE -1
        at(df) == gs.position[EngineIndex(r + forward, f + df)]
        enemy(c) == c # 0 /\ EngineIsWhite(c) # gs.whiteToMove /\ ~EngineIsKing(c)
    IN  IF ~EngineIsPawn(p) \/ EngineIsWhite(p) # gs.whiteToMove
           \/ r + forward \notin 1..8
        THEN {}
        ELSE { << forward, df >> : df \in { d \in {-1, 0, 1} :
                 /\ f + d \in 1..8
                 /\ IF d = 0 THEN at(d) = 0 ELSE enemy(at(d)) } }

\* every (source label, destination label) the position allows
EngineMoves(gs) ==
    UNION { { << squareFromRankAndFile(r, f),
                 squareFromRankAndFile(r + d[1], f + d[2]) >> :
              d \in EngineSteps(gs, r, f) } :
            r \in 1..8, f \in 1..8 }

is_move_legal(gs, srcCoords, destCoords) ==
    /\ gs.verdict = "none"
    /\ srcCoords \in Squares
    /\ destCoords \in Squares
    /\ LET sr == IndexIn(ranks, srcCoords[2])
           sf == IndexIn(files, srcCoords[1])
           dr == IndexIn(ranks, destCoords[2])
           df == IndexIn(files, destCoords[1])
       IN  << dr - sr, df - sf >> \in EngineSteps(gs, sr, sf)

\* the piece a pawn turns into on its last rank: 1 queen, 2 rook,
\* 3 bishop, 4 knight; a queen when no choice is given
EnginePromoted(code, selectedPromotion) ==
    LET colour == IF EngineIsWhite(code) THEN 1 ELSE 0
    IN  IF selectedPromotion = 2 THEN 7 + colour
        ELSE IF selectedPromotion = 3 THEN 5 + colour
        ELSE IF selectedPromotion = 4 THEN 3 + colour
        ELSE 9 + colour

\* the stand-in's checkmate: an enemy queen on the rank of the king of
\* the side to move
EngineMated(gs) ==
    LET king  == IF gs.whiteToMove THEN 12 ELSE 11
        queen == IF gs.whiteToMove THEN 9 ELSE 10
    IN  \E r \in 1..8 :
            /\ \E f \in 1..8 : gs.position[EngineIndex(r, f)] = king
            /\ \E f \in 1..8 : gs.position[EngineIndex(r, f)] = queen

make_move(gs, srcCoords, destCoords, selectedPromotion) ==
    LET sr == IndexIn(ranks, srcCoords[2])
        sf == IndexIn(files, srcCoords[1])
        dr == IndexIn(ranks, destCoords[2])
        df == IndexIn(files, destCoords[1])
        p  == gs.position[EngineIndex(sr, sf)]
        q  == IF EngineIsPawn(p) /\ dr \in {1, 8}
              THEN EnginePromoted(p, selectedPromotion)
              ELSE p
        moved == [ gs EXCEPT !.position[EngineIndex(sr, sf)] = 0,
                             !.position[EngineIndex(dr, df)] = q,
                             !.whiteToMove = ~gs.whiteToMove,
                             !.plies = gs.plies + 1,
                             !.lastMove = << srcCoords, destCoords,
                                             selectedPromotion >> ]
    IN  [ moved EXCEPT !.verdict =
            IF EngineMated(moved) THEN "checkmate"
            ELSE IF moved.plies >= MaxPlies \/ EngineMoves(moved) = {}
            THEN "draw"
            ELSE "none" ]

\* the moves make_computer_move may select
ComputerChoices(gs) ==
    IF EngineMoves(gs) = {} THEN { NoMove } ELSE EngineMoves(gs)

\* choice: the move the engine selects; it promotes to a queen
make_computer_move(gs, choice) ==
    IF choice = NoMove
    THEN [ gs EXCEPT !.verdict = "draw" ]
    ELSE make_move(gs, choice[1], choice[2], 1)

\* ------------------------------------------------------------- state

VARIABLES
    globalGameState,    \* the engine handle (line 2)
    isBoardFlipped,     \* the orientation flag (line 3)
    pawnPromotionSrc,   \* the pending promotion's source, "--" when none
    pawnPromotionDest,  \* the pending promotion's destination
    board,              \* the rendered grid: square id -> ids of its children
    promotionPopup,     \* "pawn-promotion-popup" carries the class "active"
    whiteMoveIndicator, \* "white-move-indicator" is displayed
    timers,             \* pending setTimeout callbacks of makeNextMove, oldest
                        \* first; TRUE marks one scheduled before the last reset
    cb                  \* what the last callback did (a record of its calls)

vars ==
    << globalGameState, isBoardFlipped, pawnPromotionSrc, pawnPromotionDest,
       board, promotionPopup, whiteMoveIndicator, timers, cb >>

\* the program state as one value, threaded through a callback's calls
Now ==
    [ gs        |-> globalGameState,
      flipped   |-> isBoardFlipped,
      src       |-> pawnPromotionSrc,
      dest      |-> pawnPromotionDest,
      board     |-> board,
      popup     |-> promotionPopup,
      indicator |-> whiteMoveIndicator,
      timers    |-> timers,
      cb        |-> cb ]

Becomes(s) ==
    /\ globalGameState' = s.gs
    /\ isBoardFlipped' = s.flipped
    /\ pawnPromotionSrc' = s.src
    /\ pawnPromotionDest' = s.dest
    /\ board' = s.board
    /\ promotionPopup' = s.popup
    /\ whiteMoveIndicator' = s.indicator
    /\ timers' = s.timers
    /\ cb' = s.cb

\* the record a callback of the given kind starts with
Entered(s, kind) ==
    [ s EXCEPT !.cb =
        [ kind      |-> kind,
          legal     |-> "unasked",  \* the answer of is_move_legal
          applied   |-> 0,          \* calls of make_move
          computer  |-> 0,          \* calls of make_computer_move
          repaints  |-> 0,          \* position loads
          scheduled |-> 0,          \* calls of setTimeout
          branch    |-> "none",     \* how a drop ended: "self" (discarded),
                                    \* "direct" (submitted), "candidate"
          choice    |-> "",         \* the promotion label selected
          stale     |-> FALSE ] ]   \* the timer predates the last reset

\* ------------------------------------------------------- BoardRenderer

\* square.childNodes.forEach(piece => square.removeChild(piece)) walks a
\* live list by index: each removal shifts the rest down, so every
\* second child survives
clearSquareChildren(pieces) ==
    [ k \in 1..(Len(pieces) \div 2) |-> pieces[2 * k] ]

clearSquare(b, rank, file) ==
    LET squareCode == squareFromRankAndFile(rank, file)
    IN  IF squareCode \in DOMAIN b
        THEN [ b EXCEPT ![squareCode] = clearSquareChildren(b[squareCode]) ]
        ELSE b

\* the loops of the program run over an index range, first half then
\* second half, which is the order of the loop; squares lo..hi are the
\* iterations rank = 1..8, file = 1..8 of clearBoard counted from 0
RECURSIVE clearBoardRange(_, _, _)
clearBoardRange(b, lo, hi) ==
    IF lo > hi THEN b
    ELSE IF lo = hi THEN clearSquare(b, (lo \div 8) + 1, (lo % 8) + 1)
    ELSE LET mid == (lo + hi) \div 2
             firstHalf == clearBoardRange(b, lo, mid)
         IN  IF DOMAIN firstHalf = {} THEN firstHalf
             ELSE clearBoardRange(firstHalf, mid + 1, hi)

clearBoard(b) == clearBoardRange(b, 0, 63)

\* a square the grid does not hold (or a thrown label) takes no piece
setPiece(b, pieceAsFenChar, rank, file) ==
    LET squareCode == squareFromRankAndFile(rank, file)
        pieceColour == IF isLowerChar(pieceAsFenChar) THEN "b" ELSE "w"
        htmlId == << pieceColour, toUpperCase(pieceAsFenChar), "-" >> \o squareCode
    IN  IF squareCode \in DOMAIN b
        THEN [ b EXCEPT ![squareCode] = Append(b[squareCode], htmlId) ]
        ELSE b

updatePlayerClocks(s) == [ s EXCEPT !.indicator = is_white_to_move(s.gs) ]

\* ----------------------------------------- OrientationModel, decoders

\* recomputeOrientation without the test for the computer's turn
recomputeOrientation_always(s) ==
    [ s EXCEPT !.flipped = ~is_white_to_move(s.gs) ]

recomputeOrientation(s) ==
    IF ~is_computer_move(s.gs)
    THEN [ s EXCEPT !.flipped = ~is_white_to_move(s.gs) ]
    ELSE s

\* fenStep with '/' leaving the file where it is
fenStep_slashKeepsFile(st, fenString, flipped, i) ==
    IF st.done THEN st
    ELSE IF isDigit(fenString[i])
    THEN [ st EXCEPT !.file = st.file + (charCodeAt(fenString[i]) - charCodeAt("0")) ]
    ELSE IF fenString[i] = "/"
    THEN [ st EXCEPT !.rank = st.rank - 1 ]
    ELSE IF isAlpha(fenString[i])
    THEN [ st EXCEPT
             !.b = IF ~flipped
                   THEN setPiece(st.b, fenString[i], st.rank, st.file)
                   ELSE setPiece(st.b, fenString[i], 8 - st.rank + 1, 8 - st.file + 1),
             !.file = st.file + 1 ]
    ELSE IF fenString[i] = " "
    THEN [ st EXCEPT !.done = TRUE ]
    ELSE st

\* one iteration of the scan of setBoardFromFenString; done: the break
fenStep(st, fenString, flipped, i) ==
    IF st.done THEN st
    ELSE IF isDigit(fenString[i])
    THEN [ st EXCEPT !.file = st.file + (charCodeAt(fenString[i]) - charCodeAt("0")) ]
    ELSE IF fenString[i] = "/"
    THEN [ st EXCEPT !.rank = st.rank - 1, !.file = 1 ]
    ELSE IF isAlpha(fenString[i])
    THEN [ st EXCEPT
             !.b = IF ~flipped
                   THEN setPiece(st.b, fenString[i], st.rank, st.file)
                   ELSE setPiece(st.b, fenString[i], 8 - st.rank + 1, 8 - st.file + 1),
             !.file = st.file + 1 ]
    ELSE IF fenString[i] = " "
    THEN [ st EXCEPT !.done = TRUE ]
    ELSE st

RECURSIVE fenLoop(_, _, _, _, _)
fenLoop(st, fenString, flipped, lo, hi) ==
    IF lo > hi THEN st
    ELSE IF lo = hi THEN fenStep(st, fenString, flipped, lo)
    ELSE LET mid == (lo + hi) \div 2
             firstHalf == fenLoop(st, fenString, flipped, lo, mid)
         IN  IF firstHalf.done THEN firstHalf
             ELSE fenLoop(firstHalf, fenString, flipped, mid + 1, hi)

setBoardFromFenString(s, fenString) ==
    LET cleared == [ s EXCEPT !.board = clearBoard(s.board),
                              !.cb.repaints = s.cb.repaints + 1 ]
        turned  == recomputeOrientation(cleared)
        start   == [ b |-> turned.board, rank |-> 8, file |-> 1, done |-> FALSE ]
    IN  [ turned EXCEPT !.board =
            fenLoop(start, fenString, turned.flipped, 1, Len(fenString)).b ]

\* the switch with the colours of each pair exchanged
EnumLetters_coloursExchanged ==
    << "P", "p", "N", "n", "B", "b", "R", "r", "Q", "q", "K", "k" >>

\* the switch of lines 285-323: the letter handed to setPiece for codes 1..12
EnumLetters == << "p", "P", "n", "N", "b", "B", "r", "R", "q", "Q", "k", "K" >>

\* arrayStep with the file left unturned on a flipped board
arrayStep_rankOnly(b, boardPosition, flipped, i) ==
    LET rank0 == ((64 - (i + 1)) \div 8) + 1
        file  == (i % 8) + 1
        rank  == IF flipped THEN 8 - rank0 + 1 ELSE rank0
        code  == boardPosition[i + 1]
    IN  IF code \in 1..12
        THEN setPiece(b, EnumLetters[code], rank, file)
        ELSE b

\* one iteration of the loop of setBoardFromArrayOfEnums
arrayStep(b, boardPosition, flipped, i) ==
    LET rank0 == ((64 - (i + 1)) \div 8) + 1
        file0 == (i % 8) + 1
        rank  == IF flipped THEN 8 - rank0 + 1 ELSE rank0
        file  == IF flipped THEN 8 - file0 + 1 ELSE file0
        code  == boardPosition[i + 1]
    IN  IF code \in 1..12
        THEN setPiece(b, EnumLetters[code], rank, file)
        ELSE b

RECURSIVE arrayLoop(_, _, _, _, _)
arrayLoop(b, boardPosition, flipped, lo, hi) ==
    IF lo > hi THEN b
    ELSE IF lo = hi THEN arrayStep(b, boardPosition, flipped, lo)
    ELSE LET mid == (lo + hi) \div 2
             firstHalf == arrayLoop(b, boardPosition, flipped, lo, mid)
         IN  IF DOMAIN firstHalf = {} THEN firstHalf
             ELSE arrayLoop(firstHalf, boardPosition, flipped, mid + 1, hi)

setBoardFromArrayOfEnums(s, boardPosition) ==
    LET cleared == [ s EXCEPT !.board = clearBoard(s.board),
                              !.cb.repaints = s.cb.repaints + 1 ]
        turned  == recomputeOrientation(updatePlayerClocks(cleared))
    IN  [ turned EXCEPT !.board =
            arrayLoop(turned.board, boardPosition, turned.flipped, 0, 63) ]

\* the game-over popup updateBoard opens is display only: no handler
\* modelled here reads it
updateBoard(s) == setBoardFromArrayOfEnums(s, get_board(s.gs))

\* ------------------------------------------------------------ TurnLoop

\* setTimeout(..., 10): the callback joins the host's timer queue
makeNextMove(s) ==
    [ s EXCEPT !.timers = Append(s.timers, FALSE),
               !.cb.scheduled = s.cb.scheduled + 1 ]

\* makeComputerMove not handing back to the TurnLoop
makeComputerMove_noNextStep(s, choice) ==
    LET moved == [ s EXCEPT !.gs = make_computer_move(s.gs, choice),
                            !.cb.computer = s.cb.computer + 1 ]
    IN  updateBoard(moved)

\* choice: the move the engine selects
makeComputerMove(s, choice) ==
    LET moved == [ s EXCEPT !.gs = make_computer_move(s.gs, choice),
                            !.cb.computer = s.cb.computer + 1 ]
    IN  makeNextMove(updateBoard(moved))

\* the callback without its test for the end of the game
makeNextMoveCallback_noTerminalTest(s, choice) ==
    IF is_computer_move(s.gs)
    THEN makeComputerMove(s, choice)
    ELSE s

\* the function makeNextMove hands to setTimeout
makeNextMoveCallback(s, choice) ==
    IF is_checkmate(s.gs) \/ is_draw(s.gs)
    THEN s
    ELSE IF is_computer_move(s.gs)
    THEN makeComputerMove(s, choice)
    ELSE s

\* ----------------------------------------------------- move submission

\* makeMove repainting and handing over to the TurnLoop whatever the
\* engine answered
makeMove_alwaysContinues(s, srcCoords, destCoords, selectedPromotion) ==
    LET is_move_legal_ == is_move_legal(s.gs, srcCoords, destCoords)
        asked == [ s EXCEPT !.cb.legal = IF is_move_legal_ THEN "legal" ELSE "illegal" ]
        moved == IF is_move_legal_
                 THEN [ asked EXCEPT
                          !.gs = make_move(asked.gs, srcCoords, destCoords,
                                           selectedPromotion),
                          !.cb.applied = asked.cb.applied + 1 ]
                 ELSE asked
    IN  makeNextMove(updateBoard(moved))

\* makeMove answering for the computer in the same callback
makeMove_synchronousReply(s, srcCoords, destCoords, selectedPromotion) ==
    LET is_move_legal_ == is_move_legal(s.gs, srcCoords, destCoords)
        asked == [ s EXCEPT !.cb.legal = IF is_move_legal_ THEN "legal" ELSE "illegal" ]
    IN  IF is_move_legal_
        THEN LET moved == [ asked EXCEPT
                              !.gs = make_move(asked.gs, srcCoords, destCoords,
                                               selectedPromotion),
                              !.cb.applied = asked.cb.applied + 1 ]
                 painted == updateBoard(moved)
             IN  makeNextMoveCallback(painted,
                     CHOOSE c \in ComputerChoices(painted.gs) : TRUE)
        ELSE asked

makeMove(s, srcCoords, destCoords, selectedPromotion) ==
    LET is_move_legal_ == is_move_legal(s.gs, srcCoords, destCoords)
        asked == [ s EXCEPT !.cb.legal = IF is_move_legal_ THEN "legal" ELSE "illegal" ]
    IN  IF is_move_legal_
        THEN LET moved == [ asked EXCEPT
                              !.gs = make_move(asked.gs, srcCoords, destCoords,
                                               selectedPromotion),
                              !.cb.applied = asked.cb.applied + 1 ]
             IN  makeNextMove(updateBoard(moved))
        ELSE asked

\* -------------------------------------------------- MoveInputController

\* isPawnPromotion taking either last rank for a pawn of either colour
isPawnPromotion_eitherEnd(pieceId, destSquareCoords) ==
    /\ includes(pieceId, << "w", "P" >>) \/ includes(pieceId, << "b", "P" >>)
    /\ includes(destSquareCoords, << "8" >>) \/ includes(destSquareCoords, << "1" >>)

isPawnPromotion(pieceId, destSquareCoords) ==
    \/ includes(pieceId, << "w", "P" >>) /\ includes(destSquareCoords, << "8" >>)
    \/ includes(pieceId, << "b", "P" >>) /\ includes(destSquareCoords, << "1" >>)

\* htmlElement.id of a piece or of a square
isCaptureMove(id) == Len(id) = 5 /\ isAlpha(id[1]) /\ isAlpha(id[2])

togglePromotionPopup(s) == [ s EXCEPT !.popup = ~s.popup ]

\* the ids of the elements the grid holds
PieceIds(b) == UNION { { b[sq][k] : k \in 1..Len(b[sq]) } : sq \in DOMAIN b }

\* document.getElementById(id).parentElement.id
parentElement(b, id) ==
    CHOOSE sq \in DOMAIN b : \E k \in 1..Len(b[sq]) : b[sq][k] = id

\* dropCoords turning the source label only
dropCoords_sourceOnly(s, id, target) ==
    LET srcSquare  == parentElement(s.board, id)
        destSquare == IF isCaptureMove(target)
                      THEN parentElement(s.board, target)
                      ELSE target
    IN  << IF s.flipped THEN flipCoords(srcSquare) ELSE srcSquare, destSquare >>

\* the labels a drop resolves to (lines 110-133): the squares of the
\* dragged piece and of the target as drawn, turned when the board is
\* flipped; id: the dragged piece, target: event.target.id
dropCoords(s, id, target) ==
    LET srcSquare  == parentElement(s.board, id)
        destSquare == IF isCaptureMove(target)
                      THEN parentElement(s.board, target)
                      ELSE target
        srcSquareCoords  == IF s.flipped THEN flipCoords(srcSquare)
                                         ELSE srcSquare
        destSquareCoords == IF s.flipped THEN flipCoords(destSquare)
                                         ELSE destSquare
    IN  << srcSquareCoords, destSquareCoords >>

\* onDrop without the test for a piece let go on itself
onDrop_noSelfTest(s, id, target) ==
    IF id \notin PieceIds(s.board)
    THEN s
    ELSE LET srcSquareCoords  == dropCoords(s, id, target)[1]
             destSquareCoords == dropCoords(s, id, target)[2]
         IN  IF ~isPawnPromotion(id, destSquareCoords)
             THEN makeMove([ s EXCEPT !.cb.branch = "direct" ],
                           srcSquareCoords, destSquareCoords, 0)
             ELSE togglePromotionPopup(
                      [ s EXCEPT !.src = srcSquareCoords,
                                 !.dest = destSquareCoords,
                                 !.cb.branch = "candidate" ])

\* id: the dragged piece (event.dataTransfer); target: event.target.id
onDrop(s, id, target) ==
    IF id \notin PieceIds(s.board)
    THEN s      \* getElementById(id) is null: the handler throws at line 110
    ELSE IF isCaptureMove(target) /\ target = id
    THEN [ s EXCEPT !.cb.branch = "self" ]
    ELSE LET srcSquareCoords  == dropCoords(s, id, target)[1]
             destSquareCoords == dropCoords(s, id, target)[2]
         IN  IF ~isPawnPromotion(id, destSquareCoords)
             THEN makeMove([ s EXCEPT !.cb.branch = "direct" ],
                           srcSquareCoords, destSquareCoords, 0)
             ELSE togglePromotionPopup(
                      [ s EXCEPT !.src = srcSquareCoords,
                                 !.dest = destSquareCoords,
                                 !.cb.branch = "candidate" ])

\* ------------------------------------------------------- PromotionFlow

\* promotionEnumOf with the codes of rook and bishop exchanged
promotionEnumOf_swapped(promotionStr) ==
    IF promotionStr = "Queen" THEN 1
    ELSE IF promotionStr = "Rook" THEN 3
    ELSE IF promotionStr = "Bishop" THEN 2
    ELSE IF promotionStr = "Knight" THEN 4
    ELSE 0

promotionEnumOf(promotionStr) ==
    IF promotionStr = "Queen" THEN 1
    ELSE IF promotionStr = "Rook" THEN 2
    ELSE IF promotionStr = "Bishop" THEN 3
    ELSE IF promotionStr = "Knight" THEN 4
    ELSE 0

submitSelectedPromotion(s, promotionStr) ==
    LET promotionEnum == promotionEnumOf(promotionStr)
        chosen == [ s EXCEPT !.cb.choice = promotionStr ]
        moved  == makeMove(chosen, chosen.src, chosen.dest, promotionEnum)
    IN  togglePromotionPopup([ moved EXCEPT !.src = NoSquare, !.dest = NoSquare ])

\* --------------------------------------------------------------- reset

\* resetBoard leaving the flag false whoever plays
resetBoard_neverTurned(s, whitePlayer, blackPlayer, chessPosition) ==
    LET whitePlayerEnum == IF whitePlayer = "Computer" THEN 1 ELSE 0
        blackPlayerEnum == IF blackPlayer = "Computer" THEN 1 ELSE 0
        fenString == FenOfPosition(chessPosition)
        cleared == [ s EXCEPT !.gs = reset_board(s.gs), !.flipped = FALSE ]
        configured == [ cleared EXCEPT
                          !.gs = set_players(cleared.gs, whitePlayerEnum,
                                             blackPlayerEnum) ]
        painted == setBoardFromFenString(configured, fenString)
        loaded  == updatePlayerClocks(
                       [ painted EXCEPT !.gs = set_board(painted.gs, fenString) ])
    IN  IF whitePlayer = "Computer" THEN makeNextMove(loaded) ELSE loaded

resetBoard(s, whitePlayer, blackPlayer, chessPosition) ==
    LET whitePlayerEnum == IF whitePlayer = "Computer" THEN 1 ELSE 0
        blackPlayerEnum == IF blackPlayer = "Computer" THEN 1 ELSE 0
        fenString == FenOfPosition(chessPosition)
        cleared == [ s EXCEPT !.gs = reset_board(s.gs), !.flipped = FALSE ]
        facing  == IF whitePlayer = "Computer" /\ blackPlayer = "Human"
                   THEN [ cleared EXCEPT !.flipped = TRUE ]
                   ELSE cleared
        configured == [ facing EXCEPT
                          !.gs = set_players(facing.gs, whitePlayerEnum,
                                             blackPlayerEnum) ]
        painted == setBoardFromFenString(configured, fenString)
        loaded  == updatePlayerClocks(
                       [ painted EXCEPT !.gs = set_board(painted.gs, fenString) ])
    IN  IF whitePlayer = "Computer" THEN makeNextMove(loaded) ELSE loaded

\* ------------------------------------------------------- initial state

EmptyBoard == [ sq \in Squares |-> << >> ]

\* main, setupPage: a new engine, the empty grid of setupChessBoardSquares,
\* the starting position painted, the clocks set
AfterSetup ==
    LET fresh ==
          [ gs        |-> GameState_new,
            flipped   |-> FALSE,
            src       |-> NoSquare,
            dest      |-> NoSquare,
            board     |-> EmptyBoard,
            popup     |-> FALSE,
            indicator |-> TRUE,
            timers    |-> << >>,
            cb        |-> << >> ]
    IN  updatePlayerClocks(
            setBoardFromFenString(Entered(fresh, "setup"), StartingPositionFen))

Init ==
    /\ globalGameState = AfterSetup.gs
    /\ isBoardFlipped = AfterSetup.flipped
    /\ pawnPromotionSrc = AfterSetup.src
    /\ pawnPromotionDest = AfterSetup.dest
    /\ board = AfterSetup.board
    /\ promotionPopup = AfterSetup.popup
    /\ whiteMoveIndicator = AfterSetup.indicator
    /\ timers = AfterSetup.timers
    /\ cb = AfterSetup.cb

\* ------------------------------------------------------------- inputs

PlayerTypes == { "Human", "Computer" }

\* the selections tried: the two positions with a pawn one step from
\* promotion, a white one and a black one
ChessPositions == { "Test Queen", "Test Promotion" }

PromotionLabels == { "Queen", "Rook", "Bishop", "Knight" }

\* the gestures tried: a piece is picked up on one of these files of the
\* grid as it is drawn ...
DragFiles == { "b", "d", "g" }

Draggable(b) == { id \in PieceIds(b) : id[4] \in DragFiles }

\* ... and let go on its own square, or one square up, down, to the right
\* or up and to the right (rank step, file step as drawn), on the square
\* itself or on the piece it holds
DropOffsets == { << 0, 0 >>, << 1, 0 >>, << -1, 0 >>, << 0, 1 >>, << 1, 1 >> }

DropTargets(b, id) ==
    LET sq == parentElement(b, id)
        f  == IndexIn(files, sq[1])
        r  == IndexIn(ranks, sq[2])
        near == { squareFromRankAndFile(r + d[1], f + d[2]) : d \in DropOffsets }
                    \cap Squares
    IN  near \cup UNION { { b[n][k] : k \in 1..Len(b[n]) } : n \in near }

\* --------------------------------------------------- callbacks (actions)

\* a timer callback no longer counts as the current game's once a reset ran
Outdated(ts) == [ k \in 1..Len(ts) |-> TRUE ]

ResetBoard ==
    \E whitePlayer \in PlayerTypes, blackPlayer \in PlayerTypes,
       chessPosition \in ChessPositions :
        \E s \in { Entered([ Now EXCEPT !.timers = Outdated(timers) ], "reset") } :
            \E t \in { resetBoard(s, whitePlayer, blackPlayer, chessPosition) } :
                /\ Len(t.timers) <= MaxTimers
                /\ Becomes(t)

OnDrop ==
    \E s \in { Entered(Now, "drop") } :
        \E id \in Draggable(board) :
            \E target \in DropTargets(board, id) :
                \E t \in { onDrop(s, id, target) } :
                    /\ Len(t.timers) <= MaxTimers
                    /\ Becomes(t)

\* the button sits in the chooser: it is pressed while the chooser shows
SubmitSelectedPromotion ==
    /\ promotionPopup
    /\ \E s \in { Entered(Now, "promotion") }, promotionStr \in PromotionLabels :
        \E t \in { submitSelectedPromotion(s, promotionStr) } :
            /\ Len(t.timers) <= MaxTimers
            /\ Becomes(t)

\* the oldest pending timer expires
TimerFires ==
    /\ timers # << >>
    /\ \E s \in { [ Entered(Now, "timer") EXCEPT !.timers = Tail(timers),
                                                 !.cb.stale = Head(timers) ] } :
        \E choice \in ComputerChoices(globalGameState) :
            \E t \in { makeNextMoveCallback(s, choice) } :
                Becomes(t)

Next == ResetBoard \/ OnDrop \/ SubmitSelectedPromotion \/ TimerFires

Spec == Init /\ [][Next]_vars

\* ------------------------------------------------------------- claims

Pending == pawnPromotionSrc # NoSquare \/ pawnPromotionDest # NoSquare

\* C1: a move submission the engine judges illegal applies no move, does
\* not repaint, schedules no TurnLoop step and leaves the rendered board,
\* the orientation flag and the engine unchanged.
C1_IllegalMoveChangesNothing ==
    [][ cb'.legal = "illegal" =>
          /\ cb'.applied = 0
          /\ cb'.repaints = 0
          /\ cb'.scheduled = 0
          /\ UNCHANGED << board, isBoardFlipped, globalGameState, timers >> ]_vars

C1_Witness == cb.kind = "drop" /\ cb.branch = "direct" /\ cb.legal = "illegal"

\* C2: a TurnLoop step asks the engine for a computer move exactly when,
\* as it runs, neither checkmate nor draw holds and it is the computer's
\* turn; otherwise it changes nothing and schedules nothing, so a game
\* between two humans never sees a computer move.
C2_TimerStepMovesIffDue ==
    [][ cb'.kind = "timer" =>
          LET due == /\ ~is_checkmate(globalGameState)
                     /\ ~is_draw(globalGameState)
                     /\ is_computer_move(globalGameState)
          IN  /\ cb'.computer = (IF due THEN 1 ELSE 0)
              /\ ~due =>
                   /\ cb'.scheduled = 0
                   /\ timers' = Tail(timers)
                   /\ UNCHANGED << globalGameState, board, isBoardFlipped,
                                   pawnPromotionSrc, pawnPromotionDest,
                                   promotionPopup, whiteMoveIndicator >>
              /\ globalGameState.players = << 0, 0 >> => cb'.computer = 0 ]_vars

C2_Witness ==
    /\ cb.kind = "timer"
    /\ cb.computer = 1
    /\ cb.scheduled = 1
    /\ globalGameState.plies = 1

\* C3: the engine's computer move is only ever asked for inside a timer
\* callback, and no callback applies more than one move.
C3_OneMovePerCallback ==
    /\ cb.computer > 0 => cb.kind = "timer"
    /\ cb.applied + cb.computer <= 1

C3_Witness ==
    /\ cb.kind \in { "drop", "promotion" }
    /\ cb.applied = 1
    /\ is_computer_move(globalGameState)
    /\ globalGameState.verdict = "none"

\* C4: between callbacks every square of the grid holds at most one piece
\* marker, and the markers are the engine's position seen through the
\* orientation flag.
C4_PieceLetters == << "P", "N", "B", "R", "Q", "K" >>

C4_Expected(r, f) ==
    LET lr == IF isBoardFlipped THEN 9 - r ELSE r
        lf == IF isBoardFlipped THEN 9 - f ELSE f
        code == globalGameState.position[(8 - lr) * 8 + lf]
    IN  IF code = 0 THEN << >>
        ELSE << << IF code % 2 = 1 THEN "b" ELSE "w",
                   C4_PieceLetters[(code + 1) \div 2],
                   "-", files[f], ranks[r] >> >>

C4_GridInSync ==
    \A r \in 1..8, f \in 1..8 :
        board[<< files[f], ranks[r] >>] = C4_Expected(r, f)

C4_Witness ==
    /\ isBoardFlipped
    /\ cb.applied = 1
    /\ globalGameState.plies = 2

\* C5: every position load recomputes the orientation by one rule: not
\* the computer's turn, the flag becomes "black to move"; the computer's
\* turn, the flag keeps the value it had before the load (for a reset:
\* the value resetBoard gave it, true for computer white against human
\* black only).
C5_OrientationRule ==
    [][ /\ cb'.kind \in { "drop", "promotion", "timer" } /\ cb'.repaints > 0 =>
            isBoardFlipped' =
                IF ~is_computer_move(globalGameState')
                THEN ~is_white_to_move(globalGameState')
                ELSE isBoardFlipped
        /\ cb'.kind = "reset" =>
            /\ cb'.repaints = 1
            /\ isBoardFlipped' =
                IF ~is_computer_move(globalGameState')
                THEN ~is_white_to_move(globalGameState')
                ELSE globalGameState'.players = << 1, 0 >> ]_vars

C5_Witness ==
    /\ cb.kind \in { "drop", "promotion" }
    /\ cb.repaints = 1
    /\ is_computer_move(globalGameState)
    /\ isBoardFlipped
    /\ is_white_to_move(globalGameState)

\* C6: while a promotion is pending, a further promotion-candidate drop
\* changes neither the held pair nor whether the chooser shows.
C6_SecondCandidateRefused ==
    [][ Pending /\ cb'.kind = "drop" /\ cb'.branch = "candidate" =>
          UNCHANGED << pawnPromotionSrc, pawnPromotionDest, promotionPopup >> ]_vars

\* C7: after a reset no promotion is pending.
C7_ResetClearsPending ==
    [][ cb'.kind = "reset" =>
          pawnPromotionSrc' = NoSquare /\ pawnPromotionDest' = NoSquare ]_vars

\* C8: a TurnLoop step scheduled before a reset never applies a computer
\* move to the game the reset started.
C8_StaleStepNeverMoves ==
    ~(cb.kind = "timer" /\ cb.stale /\ cb.computer > 0)

\* C9: a drop that is no promotion candidate is submitted at once with
\* promotion choice 0; a candidate asks the engine nothing and stores its
\* squares; the engine is asked when a piece is selected, with the stored
\* squares and Queen = 1, Rook = 2, Bishop = 3, Knight = 4.
C9_ChoiceCode ==
    [ l \in PromotionLabels |->
        IF l = "Queen" THEN 1 ELSE IF l = "Rook" THEN 2
        ELSE IF l = "Bishop" THEN 3 ELSE 4 ]

C9_PromotionDefersSubmission ==
    [][ /\ cb'.kind = "drop" /\ cb'.branch = "direct" =>
            /\ cb'.legal # "unasked"
            /\ cb'.applied = 1 => globalGameState'.lastMove[3] = 0
            /\ UNCHANGED << pawnPromotionSrc, pawnPromotionDest >>
        /\ cb'.kind = "drop" /\ cb'.branch = "candidate" =>
            /\ cb'.legal = "unasked"
            /\ cb'.applied = 0
            /\ UNCHANGED << globalGameState, board >>
            /\ pawnPromotionSrc' \in Squares
            /\ pawnPromotionDest' \in Squares
        /\ cb'.kind = "promotion" =>
            /\ cb'.legal # "unasked"
            /\ cb'.applied = 1 =>
                 globalGameState'.lastMove =
                     << pawnPromotionSrc, pawnPromotionDest,
                        C9_ChoiceCode[cb'.choice] >> ]_vars

C9_Witness ==
    /\ cb.kind = "promotion"
    /\ cb.applied = 1
    /\ cb.choice = "Bishop"
    /\ globalGameState.lastMove[3] = 3

\* C10: after every promotion selection nothing is pending and the
\* chooser is hidden; between callbacks the chooser shows exactly while
\* a promotion is pending.
C10_ChooserShowsIffPending ==
    /\ promotionPopup <=> Pending
    /\ cb.kind = "promotion" => ~promotionPopup /\ ~Pending

\* C11: a reset with computer white against human black leaves the flag
\* true and a TurnLoop step scheduled, and the first move applied to the
\* game it starts is a computer move made by a timer callback, no gesture
\* having moved; a reset with any other players leaves the flag false.
C11_ResetStartsComputer ==
    [][ /\ cb'.kind = "reset" =>
            /\ isBoardFlipped' = (globalGameState'.players = << 1, 0 >>)
            /\ globalGameState'.players = << 1, 0 >> => cb'.scheduled = 1
        /\ ( /\ globalGameState.players = << 1, 0 >>
             /\ globalGameState.plies = 0
             /\ cb'.applied + cb'.computer > 0 )
             => cb'.kind = "timer" /\ cb'.computer = 1 ]_vars

\* C12: for every piece of the grid and every target it may be dropped
\* on, the labels the drop resolves are the logical squares: the source
\* is the square where the engine's position holds the dragged piece,
\* the destination the logical square of the target (of the piece
\* dropped on, when the target is a piece).  This is checked after every
\* callback that repainted; a callback that does not repaint leaves the
\* grid, the flag and the engine as they were.  The flipped placement of
\* the decoders (9 - rank, 9 - file) and flipCoords undo each other; the
\* labels a drop hands on (stored as pending, or applied by the engine)
\* are squares of a piece of the engine's position.
C12_Logical(label) ==
    IF isBoardFlipped
    THEN << files[9 - IndexIn(files, label[1])], ranks[9 - IndexIn(ranks, label[2])] >>
    ELSE label

C12_CodeAt(gs, label) ==
    gs.position[(8 - IndexIn(ranks, label[2])) * 8 + IndexIn(files, label[1])]

C12_Denotes(id, code) ==
    /\ code \in 1..12
    /\ id[1] = (IF code % 2 = 1 THEN "b" ELSE "w")
    /\ id[2] = C4_PieceLetters[(code + 1) \div 2]

C12_AllGestures ==
    cb.repaints > 0 =>
    \A id \in PieceIds(board) :
        \A target \in Squares \cup (PieceIds(board) \ { id }) :
            LET coords == dropCoords(Now, id, target)
            IN  /\ coords[1] \in Squares
                /\ coords[2] \in Squares
                /\ coords[1] = C12_Logical(<< id[4], id[5] >>)
                /\ C12_Denotes(id, C12_CodeAt(globalGameState, coords[1]))
                /\ IF target \in Squares
                   THEN coords[2] = C12_Logical(target)
                   ELSE /\ coords[2] = C12_Logical(<< target[4], target[5] >>)
                        /\ C12_Denotes(target, C12_CodeAt(globalGameState, coords[2]))

C12_FlipUndoesPlacement ==
    \A r \in 1..8, f \in 1..8 :
        flipCoords(squareFromRankAndFile(8 - r + 1, 8 - f + 1))
            = squareFromRankAndFile(r, f)

C12_GestureResolvesLogical ==
    /\ [](C12_AllGestures /\ C12_FlipUndoesPlacement)
    /\ [][ /\ cb'.repaints = 0 =>
               UNCHANGED << board, isBoardFlipped, globalGameState >>
           /\ cb'.kind = "drop" /\ cb'.branch = "candidate" =>
               /\ C12_CodeAt(globalGameState, pawnPromotionSrc') \in { 1, 2 }
               /\ pawnPromotionDest' \in Squares
           /\ cb'.kind = "drop" /\ cb'.applied = 1 =>
               /\ C12_CodeAt(globalGameState, globalGameState'.lastMove[1]) # 0
               /\ C12_CodeAt(globalGameState', globalGameState'.lastMove[2])
                      = C12_CodeAt(globalGameState, globalGameState'.lastMove[1]) ]_vars

C12_Witness ==
    /\ isBoardFlipped
    /\ cb.kind = "drop"
    /\ cb.branch = "candidate"
    /\ << "b", "P", "-", "d", "7" >> \in PieceIds(board)
    /\ pawnPromotionSrc = << "e", "2" >>
    /\ pawnPromotionDest = << "e", "1" >>

\* ------------------------------------------------------------------
\* The helpers on their own: flipCoords and the two decoders applied to
\* inputs drawn from the sets below, on the page as setupPage leaves it.
\* cb names the function under test and counts its calls; the label
\* flipCoords works on is held in pawnPromotionSrc (the input) and
\* pawnPromotionDest (the value after the calls so far).
\* ------------------------------------------------------------------

\* the 64 codes get_board may return: one piece of any code on any
\* square, the empty board, the starting position, a board with a piece
\* on every square
BoardPositions ==
    { [ i \in 1..64 |-> IF i = k THEN code ELSE 0 ] : k \in 1..64, code \in 1..12 }
        \cup { [ i \in 1..64 |-> 0 ],
               get_board(GameState_new),
               [ i \in 1..64 |-> ((i - 1) % 12) + 1 ] }

\* "p-2P4/-8/k7 b Q": characters that are no piece, digit, '/' or space,
\* and letters after the first space
StrayCharsFen ==
    << "p", "-", "2", "P", "4", "/", "-", "8", "/", "k", "7", " ", "b", " ", "Q" >>

\* "K7/q": no space, the scan runs to the end of the string
BoardFieldOnlyFen == << "K", "7", "/", "q" >>

FenStrings ==
    { StartingPositionFen, MidGameFen, TestQueenFen, TestCheckmateFen,
      TestPromotionFen, TestDrawFen, StrayCharsFen, BoardFieldOnlyFen }

HelperStart(kind, whiteToMove) ==
    [ AfterSetup EXCEPT !.gs.whiteToMove = whiteToMove,
                        !.cb = [ kind |-> kind, calls |-> 0, repaints |-> 0,
                                 fenString |-> << >> ] ]

HelperInit ==
    \E whiteToMove \in BOOLEAN :
        \/ \E coords \in Squares :
             \E s \in { HelperStart("flipCoords", TRUE) } :
                /\ globalGameState = s.gs
                /\ isBoardFlipped = s.flipped
                /\ pawnPromotionSrc = coords
                /\ pawnPromotionDest = coords
                /\ board = s.board
                /\ promotionPopup = s.popup
                /\ whiteMoveIndicator = s.indicator
                /\ timers = s.timers
                /\ cb = s.cb
        \/ \E boardPosition \in BoardPositions :
             \E s \in { HelperStart("setBoardFromArrayOfEnums", whiteToMove) } :
                /\ globalGameState = [ s.gs EXCEPT !.position = boardPosition ]
                /\ isBoardFlipped = s.flipped
                /\ pawnPromotionSrc = s.src
                /\ pawnPromotionDest = s.dest
                /\ board = s.board
                /\ promotionPopup = s.popup
                /\ whiteMoveIndicator = s.indicator
                /\ timers = s.timers
                /\ cb = s.cb
        \/ \E fenString \in FenStrings :
             \E s \in { HelperStart("setBoardFromFenString", whiteToMove) } :
                /\ globalGameState = s.gs
                /\ isBoardFlipped = s.flipped
                /\ pawnPromotionSrc = s.src
                /\ pawnPromotionDest = s.dest
                /\ board = s.board
                /\ promotionPopup = s.popup
                /\ whiteMoveIndicator = s.indicator
                /\ timers = s.timers
                /\ cb = [ s.cb EXCEPT !.fenString = fenString ]

\* flipCoords applied to the label, and to its own result
FlipCoords ==
    /\ cb.kind = "flipCoords"
    /\ cb.calls < 2
    /\ pawnPromotionDest' = flipCoords(pawnPromotionDest)
    /\ cb' = [ cb EXCEPT !.calls = cb.calls + 1 ]
    /\ UNCHANGED << globalGameState, isBoardFlipped, pawnPromotionSrc, board,
                    promotionPopup, whiteMoveIndicator, timers >>

\* updateBoard's load of the engine's position
SetBoardFromArrayOfEnums ==
    /\ cb.kind = "setBoardFromArrayOfEnums"
    /\ cb.calls = 0
    /\ \E s \in { [ Now EXCEPT !.cb.calls = 1 ] } :
        \E t \in { setBoardFromArrayOfEnums(s, get_board(s.gs)) } :
            Becomes(t)

SetBoardFromFenString ==
    /\ cb.kind = "setBoardFromFenString"
    /\ cb.calls = 0
    /\ \E s \in { [ Now EXCEPT !.cb.calls = 1 ] } :
        \E t \in { setBoardFromFenString(s, cb.fenString) } :
            Becomes(t)

HelperNext == FlipCoords \/ SetBoardFromArrayOfEnums \/ SetBoardFromFenString

HelperSpec == HelperInit /\ [][HelperNext]_vars

\* C13: flipCoords sends the label of file f, rank r to the label of file
\* 9 - f, rank 9 - r, and applied twice gives the label back, for each of
\* the 64 labels a1..h8; it sends a1 to h8 and e4 to d5.
C13_FlipIsInvolution ==
    cb.kind = "flipCoords" =>
        LET f == IndexIn(files, pawnPromotionSrc[1])
            r == IndexIn(ranks, pawnPromotionSrc[2])
        IN  /\ cb.calls = 0 => pawnPromotionDest = pawnPromotionSrc
            /\ cb.calls = 1 => pawnPromotionDest = << files[9 - f], ranks[9 - r] >>
            /\ cb.calls = 2 => pawnPromotionDest = pawnPromotionSrc
            /\ cb.calls = 1 /\ pawnPromotionSrc = << "a", "1" >>
                   => pawnPromotionDest = << "h", "8" >>
            /\ cb.calls = 1 /\ pawnPromotionSrc = << "e", "4" >>
                   => pawnPromotionDest = << "d", "5" >>

C13_Witness ==
    /\ cb.kind = "flipCoords"
    /\ cb.calls = 2
    /\ pawnPromotionSrc = << "e", "4" >>
    /\ pawnPromotionDest = << "e", "4" >>

\* C14: loaded on an unflipped board, entry i (from 0) of the 64 codes is
\* drawn on rank floor((64 - (i + 1)) / 8) + 1, file (i mod 8) + 1, so
\* entry 0 on a8, 7 on h8, 56 on a1, 63 on h1; a square holds a marker
\* exactly when its code is not 0; codes 1..12 give twelve different
\* markers, pawn, knight, bishop, rook, queen, king in pairs, the odd
\* code black and the even code white.
C14_Types == << "P", "N", "B", "R", "Q", "K" >>

C14_Marker(code, square) ==
    << IF code % 2 = 1 THEN "b" ELSE "w", C14_Types[(code + 1) \div 2], "-" >>
        \o square

C14_SquareOfIndex(i) ==
    << files[(i % 8) + 1], ranks[((64 - (i + 1)) \div 8) + 1] >>

C14_ArrayDecode ==
    /\ C14_SquareOfIndex(0) = << "a", "8" >>
    /\ C14_SquareOfIndex(7) = << "h", "8" >>
    /\ C14_SquareOfIndex(56) = << "a", "1" >>
    /\ C14_SquareOfIndex(63) = << "h", "1" >>
    /\ \A c \in 1..12, d \in 1..12 :
           c # d => C14_Marker(c, << "h", "1" >>) # C14_Marker(d, << "h", "1" >>)
    /\ ( cb.kind = "setBoardFromArrayOfEnums" /\ cb.calls = 1 /\ ~isBoardFlipped ) =>
           /\ cb.repaints = 1
           /\ \A i \in 0..63 :
                LET code == get_board(globalGameState)[i + 1]
                IN  board[C14_SquareOfIndex(i)] =
                        IF code = 0 THEN << >>
                        ELSE << C14_Marker(code, C14_SquareOfIndex(i)) >>

C14_Witness ==
    /\ cb.kind = "setBoardFromArrayOfEnums"
    /\ cb.calls = 1
    /\ ~isBoardFlipped
    /\ get_board(globalGameState)[64] = 2
    /\ board[<< "h", "1" >>] = << << "w", "P", "-", "h", "1" >> >>

\* C15: the FEN load fills the grid from a cursor that starts on rank 8,
\* file 1: a digit n moves the file on by n, '/' puts the file back to 1
\* and goes one rank down, a letter puts its piece on the cursor's square
\* (the square drawn for it when the board is flipped) and moves the file
\* on by 1, nothing after the first space is read, and any other
\* character places nothing and leaves the cursor; the starting position
\* gives 32 pieces: pawns on every file of ranks 2 and 7, R N B Q K B N R
\* on ranks 1 and 8.
C15_End(fen) ==
    IF \E i \in 1..Len(fen) : fen[i] = " "
    THEN CHOOSE i \in 1..Len(fen) : fen[i] = " " /\ \A j \in 1..(i - 1) : fen[j] # " "
    ELSE Len(fen) + 1

C15_IsLetter(c) == Member(LowerChars, c) \/ Member(UpperChars, c)

C15_Width(c) ==
    IF Member(DigitChars, c) THEN IndexIn(DigitChars, c) - 1
    ELSE IF C15_IsLetter(c) THEN 1
    ELSE 0

RECURSIVE C15_Advance(_, _, _)
C15_Advance(fen, lo, hi) ==
    IF lo > hi THEN 0 ELSE C15_Width(fen[lo]) + C15_Advance(fen, lo + 1, hi)

C15_Rank(fen, k) == 8 - Cardinality({ j \in 1..(k - 1) : fen[j] = "/" })

C15_RowStart(fen, k) ==
    IF \E j \in 1..(k - 1) : fen[j] = "/"
    THEN CHOOSE j \in 1..(k - 1) : fen[j] = "/" /\ \A l \in (j + 1)..(k - 1) : fen[l] # "/"
    ELSE 0

C15_File(fen, k) == 1 + C15_Advance(fen, C15_RowStart(fen, k) + 1, k - 1)

C15_Drawn(fen, k) ==
    IF isBoardFlipped
    THEN << files[9 - C15_File(fen, k)], ranks[9 - C15_Rank(fen, k)] >>
    ELSE << files[C15_File(fen, k)], ranks[C15_Rank(fen, k)] >>

C15_Marker(c, square) ==
    << IF Member(LowerChars, c) THEN "b" ELSE "w",
       IF Member(LowerChars, c) THEN UpperChars[IndexIn(LowerChars, c)] ELSE c,
       "-" >> \o square

C15_BackRank == << "R", "N", "B", "Q", "K", "B", "N", "R" >>

C15_FenDecode ==
    ( cb.kind = "setBoardFromFenString" /\ cb.calls = 1 ) =>
        LET fen == cb.fenString
            placed == { k \in 1..(C15_End(fen) - 1) : C15_IsLetter(fen[k]) }
        IN  /\ cb.repaints = 1
            /\ \A square \in Squares :
                 LET here == { k \in placed : C15_Drawn(fen, k) = square }
                 IN  /\ Len(board[square]) = Cardinality(here)
                     /\ \A k \in here :
                          \E n \in 1..Len(board[square]) :
                              board[square][n] = C15_Marker(fen[k], square)
            /\ ( fen = StartingPositionFen /\ ~isBoardFlipped ) =>
                 /\ Cardinality(placed) = 32
                 /\ \A f \in 1..8 :
                      /\ board[<< files[f], "2" >>] = << << "w", "P", "-", files[f], "2" >> >>
                      /\ board[<< files[f], "7" >>] = << << "b", "P", "-", files[f], "7" >> >>
                      /\ board[<< files[f], "1" >>]
                             = << << "w", C15_BackRank[f], "-", files[f], "1" >> >>
                      /\ board[<< files[f], "8" >>]
                             = << << "b", C15_BackRank[f], "-", files[f], "8" >> >>
                      /\ \A r \in 3..6 : board[<< files[f], ranks[r] >>] = << >>

C15_Witness ==
    /\ cb.kind = "setBoardFromFenString"
    /\ cb.calls = 1
    /\ cb.fenString = StrayCharsFen
    /\ ~isBoardFlipped
    /\ board[<< "d", "8" >>] = << << "w", "P", "-", "d", "8" >> >>
    /\ board[<< "a", "6" >>] = << << "b", "K", "-", "a", "6" >> >>

\* C16: a drop is a promotion candidate exactly when the dragged piece is
\* a white pawn and the logical destination is on rank 8, or a black pawn
\* and the logical destination is on rank 1: for every piece the renderer
\* can draw and every label a1..h8, and for every gesture on the grid
\* under either orientation, where the label tested is the logical one.
C16_Candidate(id, label) ==
    \/ id[1] = "w" /\ id[2] = "P" /\ label[2] = "8"
    \/ id[1] = "b" /\ id[2] = "P" /\ label[2] = "1"

C16_RenderedIds ==
    { << colour, type, "-" >> \o square :
        colour \in { "w", "b" },
        type \in { "P", "N", "B", "R", "Q", "K" },
        square \in Squares }

C16_PromotionDetection ==
    /\ cb.kind = "setup" =>
         \A id \in C16_RenderedIds, label \in Squares :
             isPawnPromotion(id, label) <=> C16_Candidate(id, label)
    /\ \A id \in PieceIds(board), label \in Squares :
         isPawnPromotion(id, label) <=> C16_Candidate(id, label)
    /\ \A id \in Draggable(board) :
         \A target \in DropTargets(board, id) \ { id } :
             LET square == IF target \in Squares THEN target
                           ELSE << target[4], target[5] >>
             IN  (onDrop(Entered(Now, "drop"), id, target).cb.branch = "candidate")
                     <=> C16_Candidate(id, C12_Logical(square))

C16_Witness ==
    /\ isBoardFlipped
    /\ cb.kind = "drop"
    /\ cb.branch = "candidate"
    /\ << "w", "P", "-", "g", "2" >> \in PieceIds(board)
    /\ pawnPromotionSrc = << "b", "7" >>
    /\ pawnPromotionDest = << "b", "8" >>

\* C17: a drop whose target is a piece marker (an id of length 5 with two
\* leading letters) and is the dragged piece itself asks the engine
\* nothing, stores no pending promotion, leaves the chooser, the grid and
\* the timers alone; a drop on another piece marker resolves the
\* destination from that piece's square, any other drop from the target
\* square itself.
C17_SelfDropIsNoOp ==
    /\ [][ cb'.kind = "drop" /\ cb'.branch = "self" =>
             /\ cb'.legal = "unasked"
             /\ cb'.applied = 0
             /\ cb'.computer = 0
             /\ cb'.repaints = 0
             /\ cb'.scheduled = 0
             /\ UNCHANGED << globalGameState, isBoardFlipped, pawnPromotionSrc,
                             pawnPromotionDest, board, promotionPopup,
                             whiteMoveIndicator, timers >> ]_vars
    /\ [](\A id \in PieceIds(board) :
            /\ isCaptureMove(id)
            /\ onDrop(Entered(Now, "drop"), id, id).cb.branch = "self"
            /\ \A target \in DropTargets(board, id) \ { id } :
                 /\ target \in Squares => ~isCaptureMove(target)
                 /\ onDrop(Entered(Now, "drop"), id, target).cb.branch # "self"
                 /\ dropCoords(Now, id, target)[2] =
                        C12_Logical(IF isCaptureMove(target)
                                    THEN parentElement(board, target)
                                    ELSE target))

C17_Witness ==
    /\ cb.kind = "drop"
    /\ cb.branch = "self"
    /\ cb.legal = "unasked"
    /\ isBoardFlipped

\* The timers of the host expire: a pending TurnLoop step is run in the
\* end.  This is weak fairness of TimerFires, written out with the
\* condition under which TimerFires is enabled (a timer is pending) and
\* the mark every step of it, and no other step, leaves (cb.kind).
FairSpec ==
    Spec /\ ([]<>(timers = << >>) \/ []<><< cb'.kind = "timer" >>_vars)

\* C18: between callbacks, whenever it is the computer's turn and the
\* game is neither checkmate nor drawn, a TurnLoop step is pending; so,
\* timers expiring, from every such state a callback follows that
\* applies a move to the engine or resets the board.  Whether a move is
\* due changes only in such a callback, so that "a due move is always
\* followed by one" is: such callbacks come again and again, or again and
\* again no move is due.
C18_Due ==
    /\ is_computer_move(globalGameState)
    /\ ~is_checkmate(globalGameState)
    /\ ~is_draw(globalGameState)

C18_MovedOrReset == cb'.kind = "reset" \/ cb'.applied + cb'.computer > 0

C18_TurnLoopNeverStalls ==
    /\ [](C18_Due => timers # << >>)
    /\ [][ C18_Due' # C18_Due => C18_MovedOrReset ]_vars
    /\ ([]<>(~C18_Due) \/ []<><< C18_MovedOrReset >>_vars)

C18_Witness ==
    /\ cb.kind = "timer"
    /\ cb.computer = 1
    /\ C18_Due
    /\ globalGameState.players = << 1, 1 >>
    /\ timers # << >>

\* C19: a drop or a promotion selection applies a move to the engine only
\* when, as the callback starts, it is not the computer's turn.
C19_GestureNeverMovesForComputer ==
    [][ cb'.kind \in { "drop", "promotion" } /\ cb'.applied > 0 =>
          ~is_computer_move(globalGameState) ]_vars

\* C20: between callbacks, once a reset has set the players: with the
\* computer white and a human black the flag is true, with a human white
\* and the computer black it is false, with the computer on both sides
\* it is false.
C20_BoardFacesHuman ==
    /\ globalGameState.players = << 1, 0 >> => isBoardFlipped
    /\ globalGameState.players = << 0, 1 >> => ~isBoardFlipped
    /\ globalGameState.players = << 1, 1 >> => ~isBoardFlipped

C20_Witness ==
    /\ globalGameState.players = << 1, 0 >>
    /\ isBoardFlipped
    /\ cb.kind = "promotion"
    /\ cb.applied = 1
    /\ globalGameState.plies = 2
    /\ globalGameState.lastMove[1] = << "e", "2" >>

====
